---- MODULE Spec2Model ----
(***************************************************************************)
(* A model of price_watcher.py: the PriceWatcher object (its tracked map,  *)
(* the persisted store) and its operations add_item, remove_item,          *)
(* load_data, save_data and check_prices, the latter stepped through the   *)
(* redirect probe, get_price (static stage, rendered-page fallback), the   *)
(* reconciliation of the observed price, the save and the notification.    *)
(* SpecStored starts the same operations on a store an earlier run wrote.  *)
(* Two further specifications run a pure part on its own: SpecExtract calls *)
(* extract_price, SpecSelect runs the selector loop of get_price.           *)
(*                                                                         *)
(* Encoding of Python values.  Strings are tuples of one-character         *)
(* strings.  None is the empty tuple; an optional value that is present    *)
(* is a non-empty tuple (a url, a name, a price <<m, e>>, a timestamp      *)
(* <<t>>).  A float parsed from a decimal literal is <<m, e>>: the number  *)
(* m / 10^e, with no trailing zero in the fraction, so that two literals   *)
(* denote the same float exactly when their tuples are equal.              *)
(***************************************************************************)
EXTENDS Integers, Sequences, FiniteSets, TLC

\* ------------------------------------------------------------------ bounds

\* Largest number of check cycles one behaviour runs.
MaxCycles == 2
\* Largest number of items the check cycles of one behaviour go through.
MaxVisits == 2

\* ------------------------------------------------------- Python's None

None == <<>>

\* ------------------------------------------------------------- strings

Digits == {"0", "1", "2", "3", "4", "5", "6", "7", "8", "9"}

DigitVal(c) ==
    CASE c = "0" -> 0 [] c = "1" -> 1 [] c = "2" -> 2 [] c = "3" -> 3
      [] c = "4" -> 4 [] c = "5" -> 5 [] c = "6" -> 6 [] c = "7" -> 7
      [] c = "8" -> 8 [] c = "9" -> 9

\* str.replace(c, ''): every occurrence of the character c removed.
Remove(s, c) == SelectSeq(s, LAMBDA x : x # c)

\* The least index i >= from at which s holds a digit, or Len(s) + 1.
RECURSIVE NextDigit(_, _)
NextDigit(s, from) ==
    IF from > Len(s) THEN Len(s) + 1
    ELSE IF s[from] \in Digits THEN from
    ELSE NextDigit(s, from + 1)

\* The least index i >= from at which s holds no digit, or Len(s) + 1.
RECURSIVE NextNonDigit(_, _)
NextNonDigit(s, from) ==
    IF from > Len(s) THEN Len(s) + 1
    ELSE IF s[from] \notin Digits THEN from
    ELSE NextNonDigit(s, from + 1)

\* int() of a non-empty run of digits.
RECURSIVE IntOf(_)
IntOf(s) ==
    IF s = <<>> THEN 0
    ELSE 10 * IntOf(SubSeq(s, 1, Len(s) - 1)) + DigitVal(s[Len(s)])

\* The float m / 10^e in lowest decimal form.
RECURSIVE Normal(_, _)
Normal(m, e) ==
    IF e > 0 /\ m % 10 = 0 THEN Normal(m \div 10, e - 1) ELSE <<m, e>>

\* float() of a literal \d+ or \d+\.\d+.
Float(lit) ==
    LET dot == NextNonDigit(lit, 1)
    IN  IF dot > Len(lit) THEN <<IntOf(lit), 0>>
        ELSE Normal(IntOf(Remove(lit, ".")), Len(lit) - dot)

\* A search that knows the integer form only.
ReSearch_Integer(s) ==
    LET i == NextDigit(s, 1)
        j == NextNonDigit(s, i)
    IN  IF i > Len(s) THEN None ELSE SubSeq(s, i, j - 1)

\* re.search(r'(\d+\.\d+|\d+)', s): the leftmost match, the first alternative
\* preferred at that place and each \d+ greedy; None when nothing matches.
\* The match starts at the first digit, i; j is one past the run of digits
\* from i, and k one past the digits that follow a point at j.
ReSearch(s) ==
    LET i == NextDigit(s, 1)
        j == NextNonDigit(s, i)
        k == IF j < Len(s) THEN NextNonDigit(s, j + 1) ELSE j
    IN  IF i > Len(s) THEN None
        ELSE IF j >= Len(s) THEN SubSeq(s, i, j - 1)
        ELSE IF s[j] = "." /\ k > j + 1 THEN SubSeq(s, i, k - 1)
        ELSE SubSeq(s, i, j - 1)

\* An extract_price that does not test whether the search matched.
extract_price_Unchecked(price_text) ==
    Float(ReSearch(Remove(Remove(price_text, ","), "$")))

\* PriceWatcher.extract_price
extract_price(price_text) ==
    LET t == Remove(Remove(price_text, ","), "$")
        match == ReSearch(t)
    IN  IF match # None THEN Float(match) ELSE None

\* str.strip(), over the one blank the modelled texts use.
RECURSIVE Strip(_)
Strip(s) ==
    IF s = <<>> THEN s
    ELSE IF Head(s) = " " THEN Strip(Tail(s))
    ELSE IF s[Len(s)] = " " THEN Strip(SubSeq(s, 1, Len(s) - 1))
    ELSE s

\* ----------------------------------------------------------------- urls

Letters == {"a", "b", "c", "h"}
\* urllib.parse.scheme_chars, over the modelled alphabet.
SchemeChars == Letters \cup Digits \cup {"+", "-", "."}

\* The least index at which s holds the character c, or 0 (str.find + 1).
RECURSIVE Find(_, _, _)
Find(s, c, from) ==
    IF from > Len(s) THEN 0
    ELSE IF s[from] = c THEN from
    ELSE Find(s, c, from + 1)

\* The least index >= from at which s holds one of '/', '?', '#', or Len(s) + 1.
RECURSIVE NetlocEnd(_, _)
NetlocEnd(s, from) ==
    IF from > Len(s) THEN Len(s) + 1
    ELSE IF s[from] \in {"/", "?", "#"} THEN from
    ELSE NetlocEnd(s, from + 1)

\* urlparse(url), its scheme and netloc: the scheme is what precedes the first
\* ':' when that starts with a letter and holds only scheme characters; the
\* netloc is what follows a '//' at the start of the rest.
urlparse(url) ==
    LET i == Find(url, ":", 1)
        hasScheme == /\ i > 1
                     /\ url[1] \in Letters
                     /\ \A k \in 1..(i - 1) : url[k] \in SchemeChars
        scheme == IF hasScheme THEN SubSeq(url, 1, i - 1) ELSE <<>>
        rest == IF hasScheme THEN SubSeq(url, i + 1, Len(url)) ELSE url
        hasNetloc == Len(rest) >= 2 /\ rest[1] = "/" /\ rest[2] = "/"
        netloc == IF hasNetloc THEN SubSeq(rest, 3, NetlocEnd(rest, 3) - 1)
                  ELSE <<>>
    IN  [scheme |-> scheme, netloc |-> netloc]

\* Two product urls, a redirect target, and three malformed urls (no scheme,
\* no network location, neither).
U1 == <<"h", ":", "/", "/", "a">>
U2 == <<"h", ":", "/", "/", "b">>
T1 == <<"h", ":", "/", "/", "c">>
NoScheme == <<"/", "/", "a">>
NoNetloc == <<"h", ":", "a">>
Bare == <<"a">>

\* The calls of add_item: the url and the name (None: no name given).
AddCalls ==
    { <<U1, None>>, <<U2, <<"n">>>>, <<NoScheme, None>>, <<NoNetloc, <<"n">>>>,
      <<Bare, None>> }
\* The urls the caller passes to remove_item.
RemoveCalls == {U1, U2, T1}

\* f"Item from {parsed_url.netloc}"
ItemFrom(netloc) ==
    <<"I", "t", "e", "m", " ", "f", "r", "o", "m", " ">> \o netloc

\* ---------------------------------------------------------------- state

VARIABLES
    items,          \* self.items: the tracked map, in the dict's insertion order,
                    \* each entry a record with its key in the field id
    store,          \* the persisted store (the local file or the S3 object)
    use_s3,         \* self.use_s3 (with self.s3_bucket set)
    email_config,   \* whether self.email_config is set
    writable,       \* whether this run's writes of the store succeed
    pc,             \* where check_prices stands; "idle" outside a cycle
    idx,            \* the position of the loop of check_prices in the items
    changes,        \* the local list changes of check_prices
    price,          \* the local price of check_prices
    clock,          \* datetime.now(); it advances with every cycle
    result,         \* what the last operation returned, or "raised"
    head_url,       \* the url the current item's probe was issued against
    head_response,  \* the local head_response of check_prices, or the exception
    get_url,        \* the url get_price was called with for the current item
    stage1,         \* how the static stage of the current get_price ended
    fallbacks,      \* the calls of get_price_with_selenium in the current get_price
    visited,        \* the number of items the loop has gone through in this cycle
    visits,         \* the number of items the cycles have gone through so far
    mark,           \* the length of changes when the current item's probe ended
    items0,         \* self.items as it was when the cycle began
    saved,          \* this cycle's calls of save_data: the items each was given
    notified,       \* this cycle's calls of send_notification: the list each was given
    sent,           \* what the last send_notification returned
    last_call,      \* the operation called last, with its arguments
    obs,            \* this cycle's observations, one for each item gone through
    obs0,           \* the observations of the cycle just before this one
    price_text,     \* the argument of a call of extract_price on its own
    extracted,      \* what that call returned
    soup,           \* the page of a run of get_price's selector loop on its own
    selected,       \* how that run ended
    driver          \* the browser driver of the current get_price_with_selenium:
                    \* "none", "open", or "released"

vars == <<items, store, use_s3, email_config, writable, pc, idx, changes, price, clock,
          result, head_url, head_response, get_url, stage1, fallbacks, visited,
          visits, mark, items0, saved, notified, sent, last_call, obs, obs0,
          price_text, extracted, soup, selected, driver>>

\* The url fields of the items, taken for the keys.
Ids_Urls(its) == {its[i].url : i \in 1..Len(its)}

\* The keys of self.items.
Ids(its) == {its[i].id : i \in 1..Len(its)}

\* del self.items[url]
Delete(its, id) == SelectSeq(its, LAMBDA it : it.id # id)

NoStore == [exists |-> FALSE, parses |-> FALSE, items |-> <<>>]

\* head_response before the probe of an item has been answered.
NoResponse == [raised |-> FALSE, status_code |-> 0, location |-> None]

\* A process is between two operations.
Idle == pc \in {"idle", "done", "crashed"}

\* The locals of check_prices are gone once another operation runs.
NoCycle ==
    /\ idx' = 0
    /\ changes' = <<>>
    /\ price' = None
    /\ head_url' = None
    /\ head_response' = NoResponse
    /\ get_url' = None
    /\ stage1' = "none"
    /\ fallbacks' = 0
    /\ visited' = 0
    /\ mark' = 0
    /\ items0' = <<>>
    /\ saved' = <<>>
    /\ notified' = <<>>
    /\ sent' = "none"
    /\ obs' = <<>>
    /\ obs0' = <<>>

\* No call of extract_price on its own has been made.
NoText == <<"-">>

\* The selector loop of get_price has not been run on its own.
NoSelection == [kind |-> "none", price |-> None]

\* What the process starts from, the environment's choices apart.
Fresh ==
    /\ items = <<>>
    /\ store = NoStore
    /\ pc = "idle"
    /\ idx = 0
    /\ changes = <<>>
    /\ price = None
    /\ clock = 0
    /\ result = "none"
    /\ head_url = None
    /\ head_response = NoResponse
    /\ get_url = None
    /\ stage1 = "none"
    /\ fallbacks = 0
    /\ visited = 0
    /\ visits = 0
    /\ mark = 0
    /\ items0 = <<>>
    /\ saved = <<>>
    /\ notified = <<>>
    /\ sent = "none"
    /\ last_call = <<"__init__">>
    /\ obs = <<>>
    /\ obs0 = <<>>
    /\ driver = "none"

Init ==
    /\ Fresh
    /\ use_s3 \in BOOLEAN
    /\ email_config \in BOOLEAN
    /\ writable \in BOOLEAN
    /\ price_text = NoText
    /\ extracted = NoText
    /\ soup = NoText
    /\ selected = NoSelection

\* ---------------------------------------------------------- persistence

\* save_data raises: the local branch has no handler around open and json.dump,
\* the S3 branch catches every exception.
SaveRaises == ~writable /\ ~use_s3

\* The store that holds the items its: the file json.dump wrote, the object
\* put_object stored.
Written(its) == [exists |-> TRUE, parses |-> TRUE, items |-> its]

\* The file after open(self.data_file, 'w') succeeded and json.dump or the
\* close of the file failed: it is there, empty or cut short, and is not JSON.
Truncated == [exists |-> TRUE, parses |-> FALSE, items |-> <<>>]

\* Where a write of the store fails, when it does: in the S3 branch at put_object,
\* which leaves the object; in the local branch at open, which leaves the
\* file, or after open created or truncated it.
WriteFailures ==
    IF writable THEN {"nowhere"}
    ELSE IF use_s3 THEN {"put_object"}
    ELSE {"open", "write"}

\* The store after save_data on the items its, the write succeeding, or
\* failing at the step fail.
SavedStore(its, fail) ==
    IF writable THEN Written(its)
    ELSE IF fail = "write" THEN Truncated
    ELSE store

\* How reading the store goes:
\*   "loaded"      it is there and parses,
\*   "absent"      there is no file (os.path.exists is False), no key in the
\*                 bucket (NoSuchKey),
\*   "corrupt"     it is there and is not JSON (JSONDecodeError),
\*   "unreadable"  it cannot be read: open raises an OSError, get_object any
\*                 error other than NoSuchKey.
ReadOutcomes == {"loaded", "absent", "corrupt", "unreadable"}

\* The ways reading the store st can go.
Reads(st) ==
    IF st.exists /\ st.parses THEN {"loaded", "corrupt", "unreadable"}
    ELSE IF st.exists THEN {"corrupt", "unreadable"}
    ELSE IF use_s3 THEN {"absent", "unreadable"}
    ELSE {"absent"}

\* load_data raises: the S3 branch catches every exception (lines 71-76), the
\* local branch catches json.JSONDecodeError only (line 84).
LoadRaises(read) == ~use_s3 /\ read = "unreadable"

\* PriceWatcher.load_data, as __init__ runs it in a new process on the store,
\* after self.items = {} (line 39).
load_data(read) ==
    /\ Idle
    /\ read \in Reads(store)
    /\ items' = IF read = "loaded" THEN store.items ELSE <<>>
    /\ pc' = "idle"
    /\ result' = IF LoadRaises(read) THEN "raised" ELSE "none"
    /\ NoCycle
    /\ last_call' = <<"load_data", read>>
    /\ UNCHANGED <<store, use_s3, email_config, writable, clock, visits,
                   price_text, extracted, soup, selected, driver>>

\* ------------------------------------------------------- add and remove

NewItem(url, name) ==
    [id |-> url, name |-> name, url |-> url, previous_url |-> None,
     current_price |-> None, previous_price |-> None, last_checked |-> None]

\* A test that asks for a scheme only.
Malformed_SchemeOnly(parsed_url) == parsed_url.scheme = <<>>

\* The test of line 108: not parsed_url.scheme or not parsed_url.netloc.
Malformed(parsed_url) == parsed_url.scheme = <<>> \/ parsed_url.netloc = <<>>

\* PriceWatcher.add_item(url, name), with its call of save_data.
add_item(url, name) ==
    LET parsed_url == urlparse(url)
        nm == IF name = None THEN ItemFrom(parsed_url.netloc) ELSE name
    IN  /\ Idle
        /\ pc' = "idle"
        /\ IF Malformed(parsed_url)
           THEN /\ result' = "False"
                /\ UNCHANGED <<items, store>>
           ELSE IF url \notin Ids(items)
           THEN /\ items' = Append(items, NewItem(url, nm))
                /\ \E fail \in WriteFailures : store' = SavedStore(items', fail)
                /\ result' = IF SaveRaises THEN "raised" ELSE "True"
           ELSE /\ result' = "False"
                /\ UNCHANGED <<items, store>>
        /\ NoCycle
        /\ last_call' = <<"add_item", url, name>>
        /\ UNCHANGED <<use_s3, email_config, writable, clock, visits,
                       price_text, extracted, soup, selected, driver>>

\* PriceWatcher.remove_item(url), with its call of save_data.
remove_item(url) ==
    /\ Idle
    /\ pc' = "idle"
    /\ IF url \in Ids(items)
       THEN /\ items' = Delete(items, url)
            /\ \E fail \in WriteFailures : store' = SavedStore(items', fail)
            /\ result' = IF SaveRaises THEN "raised" ELSE "True"
       ELSE /\ result' = "False"
            /\ UNCHANGED <<items, store>>
    /\ NoCycle
    /\ last_call' = <<"remove_item", url>>
    /\ UNCHANGED <<use_s3, email_config, writable, clock, visits,
                   price_text, extracted, soup, selected, driver>>

\* ---------------------------------------------------- the redirect probe

\* A probe that knows the two classic redirect codes only.
RedirectCodes_Classic == {301, 302}

\* The status codes check_prices takes for a redirect.
RedirectCodes == {301, 302, 303, 307, 308}
\* The statuses the origin answers the HEAD request with.
HeadStatuses == {200, 301, 302, 303, 307, 308, 404}
\* The Location headers it sends: none (or an empty one), or a target.
Locations == {None, T1}

\* What requests.head does: it raises a RequestException, or it returns a
\* response with a status and, possibly, a Location header.
HeadOutcomes ==
    {[raised |-> TRUE, status_code |-> 0, location |-> None]}
    \cup [raised : {FALSE}, status_code : HeadStatuses, location : Locations]

\* The url the probe of an item is issued against: the loop variable url of
\* check_prices, the item's key.
ProbeUrl(it) == it.id

\* The condition under which check_prices records a redirect.
IsRedirect(resp) ==
    /\ ~resp.raised
    /\ resp.status_code \in RedirectCodes
    /\ resp.location # None

UrlEvent(it, url, new_url, now) ==
    [name |-> it.name, url |-> url, change_type |-> "url",
     old_value |-> url, new_value |-> new_url, timestamp |-> <<now>>]

\* A probe with no handler around requests.head.
Caught_Never(resp) == FALSE

\* Whether the handler at line 186 catches what requests.head raised: it
\* catches RequestException, the class of what requests raises.
Caught(resp) == resp.raised

\* A probe that moves a redirected item to the key of its new url.
Probed_Rekey(it, resp) ==
    IF IsRedirect(resp)
    THEN [it EXCEPT !.id = resp.location, !.previous_url = it.id,
                    !.url = resp.location]
    ELSE it

\* The item after the probe was answered with resp.
Probed(it, resp) ==
    IF IsRedirect(resp)
    THEN [it EXCEPT !.previous_url = it.id, !.url = resp.location]
    ELSE it

\* ------------------------------------------------------------ get_price

\* The selectors of get_price, in its order.
selectors ==
    << "[itemprop=price]", ".price-characteristic",
       "[data-automation-id=price-value]",
       ".prod-PriceSection [aria-hidden=false]", "span.price-group",
       "[data-testid=price-wrap] span.inline-flex span.primary" >>

\* The texts an element of a page holds: two prices, one of them padded, and
\* a text with no number.
Texts == { <<"$", "1">>, <<" ", "1", ".", "5", "0">>, <<"n", "/", "a">> }

\* A page: for each selector the text of the first element it selects (a
\* one-element tuple), or None when it selects nothing.
EmptyPage == [i \in 1..Len(selectors) |-> None]

\* The pages of a check cycle: no selector selects anything, or the first or
\* the last one does (the pages on which several do are those of SpecSelect).
Pages ==
    {EmptyPage}
    \cup {[EmptyPage EXCEPT ![i] = <<t>>] : i \in {1, Len(selectors)}, t \in Texts}

\* The statuses other than 200 the origin answers the GET request with.
FailureStatuses == {404, 503}

\* What requests.get does: it raises, or it returns a status and a page.
GetOutcomes ==
    {[raised |-> TRUE, status_code |-> 0, page |-> EmptyPage]}
    \cup [raised : {FALSE}, status_code : FailureStatuses, page : {EmptyPage}]
    \cup [raised : {FALSE}, status_code : {200}, page : Pages]

\* A loop that stops at the first selector that selects an element, whatever
\* its text.
RECURSIVE probe_selectors_FirstMatch(_, _)
probe_selectors_FirstMatch(page, i) ==
    IF i > Len(selectors) THEN None
    ELSE IF page[i] # None THEN extract_price(Strip(page[i][1]))
    ELSE probe_selectors_FirstMatch(page, i + 1)

\* The loop over the selectors, from the i-th on: the price of the first
\* selected element whose text holds a number, or None.
RECURSIVE probe_selectors(_, _)
probe_selectors(page, i) ==
    IF i > Len(selectors) THEN None
    ELSE LET found == IF page[i] = None THEN None
                      ELSE extract_price(Strip(page[i][1]))
         IN  IF found # None THEN found ELSE probe_selectors(page, i + 1)

\* How the static stage of get_price ends on an outcome of requests.get:
\*   "error"      an exception, caught at line 275,
\*   "status"     a status other than 200,
\*   "found"      a selector yielded a number,
\*   "exhausted"  no selector yielded a number.
static_stage(out) ==
    IF out.raised THEN [kind |-> "error", price |-> None]
    ELSE IF out.status_code # 200 THEN [kind |-> "status", price |-> None]
    ELSE LET p == probe_selectors(out.page, 1)
         IN  IF p # None THEN [kind |-> "found", price |-> p]
             ELSE [kind |-> "exhausted", price |-> None]

\* A get_price that falls back in its exception handler only.
CallsSelenium_ErrorOnly(kind) == kind = "error"

\* Whether get_price goes on to get_price_with_selenium after the static stage:
\* after the selectors are exhausted (line 271) and in the handler (line 278).
CallsSelenium(kind) == kind \in {"exhausted", "error"}

\* The url get_price is called with for an item: the loop variable url of
\* check_prices, the item's key.
PriceUrl(it) == it.id

\* What get_price_with_selenium returns: the number in a rendered element's
\* text, or None when no selector resolves or the text holds no number.
SeleniumResults == {None} \cup ({extract_price(Strip(t)) : t \in Texts} \ {None})

\* -------------------------------------------------------- reconciliation

PriceEvent(it, url, p) ==
    [name |-> it.name, url |-> url, change_type |-> "price",
     old_value |-> it.previous_price, new_value |-> p,
     timestamp |-> it.last_checked]

\* A check_prices that takes every result of get_price for an observation.
Resolved_Always(p) == TRUE

\* Whether check_prices takes the result p of get_price for an observation.
Resolved(p) == p # None

\* A comparison that takes the first observation for a change.
PriceChanged_NoInitial(it, p) == p # it.current_price

\* Whether an observation p is a change of the item's price.
PriceChanged(it, p) == it.current_price # None /\ p # it.current_price

\* A reconciliation that overwrites current_price without keeping the old one.
Reconciled_NoShift(it, p, now) ==
    IF p = None THEN it
    ELSE [it EXCEPT !.last_checked = <<now>>, !.current_price = p]

\* A reconciliation that shifts current_price into previous_price on every
\* observation of a known price, changed or not.
Reconciled_AlwaysShift(it, p, now) ==
    IF p = None THEN it
    ELSE IF it.current_price = None
    THEN [it EXCEPT !.last_checked = <<now>>, !.current_price = p]
    ELSE [it EXCEPT !.last_checked = <<now>>,
                    !.previous_price = it.current_price,
                    !.current_price = p]

\* A reconciliation that keeps the new price as the previous one too.
Reconciled_ShiftNew(it, p, now) ==
    IF p = None THEN it
    ELSE IF it.current_price = None
    THEN [it EXCEPT !.last_checked = <<now>>, !.current_price = p]
    ELSE IF p # it.current_price
    THEN [it EXCEPT !.last_checked = <<now>>,
                    !.previous_price = p,
                    !.current_price = p]
    ELSE [it EXCEPT !.last_checked = <<now>>]

\* The item after lines 192-217 on the result p of get_price.
Reconciled(it, p, now) ==
    IF ~Resolved(p) THEN it
    ELSE IF it.current_price = None
    THEN [it EXCEPT !.last_checked = <<now>>, !.current_price = p]
    ELSE IF PriceChanged(it, p)
    THEN [it EXCEPT !.last_checked = <<now>>,
                    !.previous_price = it.current_price,
                    !.current_price = p]
    ELSE [it EXCEPT !.last_checked = <<now>>]

\* A reconciliation that reports every observation of a known price.
ReconcileEvents_Any(it, p, now) ==
    IF p # None /\ it.current_price # None
    THEN << [name |-> it.name, url |-> it.id, change_type |-> "price",
             old_value |-> it.current_price, new_value |-> p,
             timestamp |-> <<now>>] >>
    ELSE << >>

\* The events lines 192-217 append on the result p of get_price.
ReconcileEvents(it, p, now) ==
    IF Resolved(p) /\ PriceChanged(it, p)
    THEN << PriceEvent(Reconciled(it, p, now), it.id, p) >>
    ELSE << >>

\* What the reconciliation of an item was given and what it did: the item's
\* key, its current_price before, the result p of get_price and the number of
\* events appended.
Observation(it, p, now) ==
    [id |-> it.id, before |-> it.current_price, price |-> p,
     events |-> Len(ReconcileEvents(it, p, now))]

\* ------------------------------------------------------- the check cycle

\* A cycle that saves only when something changed.
SaveCalls_OnChange(chg) == IF chg # <<>> THEN 1 ELSE 0

\* The calls of save_data at the end of a cycle with the change list chg: one
\* in the branch with changes (line 222), one in the branch without (line 227).
SaveCalls(chg) == IF chg # <<>> THEN 1 ELSE 1

\* A cycle that notifies whenever a notifier is configured.
Notifies_Always(chg) == email_config

\* Whether the cycle calls send_notification on the change list chg.
Notifies(chg) == chg # <<>> /\ email_config

\* check_prices, lines 161-164: a cycle begins.
check_prices ==
    /\ Idle
    /\ clock < MaxCycles
    /\ visits + Len(items) <= MaxVisits
    /\ clock' = clock + 1
    /\ pc' = IF items = <<>> THEN "save" ELSE "probe"
    /\ idx' = 1
    /\ changes' = <<>>
    /\ price' = None
    /\ result' = "none"
    /\ head_url' = None
    /\ head_response' = NoResponse
    /\ get_url' = None
    /\ stage1' = "none"
    /\ fallbacks' = 0
    /\ visited' = 0
    /\ mark' = 0
    /\ items0' = items
    /\ saved' = <<>>
    /\ notified' = <<>>
    /\ sent' = "none"
    /\ last_call' = <<"check_prices">>
    /\ obs0' = obs
    /\ obs' = <<>>
    /\ UNCHANGED <<items, store, use_s3, email_config, writable, visits,
                   price_text, extracted, soup, selected, driver>>

\* check_prices, lines 166-187: the redirect probe of the current item.
redirect_probe(resp) ==
    LET it == items[idx]
        events == IF IsRedirect(resp)
                  THEN << UrlEvent(it, it.id, resp.location, clock) >>
                  ELSE << >>
    IN  /\ pc = "probe"
        /\ head_url' = ProbeUrl(it)
        /\ head_response' = resp
        /\ IF resp.raised /\ ~Caught(resp)
           THEN /\ pc' = "crashed"
                /\ result' = "raised"
                /\ UNCHANGED <<items, changes, mark>>
           ELSE /\ items' = [items EXCEPT ![idx] = Probed(it, resp)]
                /\ changes' = changes \o events
                /\ mark' = Len(changes')
                /\ pc' = "get_price"
                /\ UNCHANGED result
        /\ UNCHANGED <<store, use_s3, email_config, writable, idx, price, clock,
                       get_url, stage1, fallbacks, visited, visits, items0,
                       saved, notified, sent, last_call, obs, obs0,
                       price_text, extracted, soup, selected, driver>>

\* get_price, lines 231-278: the static stage on an outcome of requests.get.
get_price(out) ==
    LET it == items[idx]
        st == static_stage(out)
    IN  /\ pc = "get_price"
        /\ get_url' = PriceUrl(it)
        /\ stage1' = st.kind
        /\ IF CallsSelenium(st.kind)
           THEN /\ fallbacks' = 1
                /\ price' = None
                /\ pc' = "selenium"
           ELSE /\ fallbacks' = 0
                /\ price' = st.price
                /\ pc' = "reconcile"
        /\ head_url' = None
        /\ head_response' = NoResponse
        /\ UNCHANGED <<mark, visits, items, store, use_s3, email_config, writable, idx, changes, clock,
                       result, visited, items0, saved, notified, sent,
                       last_call, obs, obs0, price_text, extracted, soup, selected, driver>>

\* Whether a call of get_price_with_selenium is made inside the try of
\* get_price (line 235): the call of line 271 is, the call of line 278, in the
\* handler, is not.  kind is how the static stage ended, calls the number of
\* calls made so far.
InTry(kind, calls) == kind = "exhausted" /\ calls = 1

\* get_price_with_selenium raises before its own try (the import of line 300
\* fails).  Raised by the call of line 271, the exception is caught at line 275
\* and the handler calls the method again, at line 278; raised by the call of
\* line 278, it leaves get_price and check_prices.
fallback_raises ==
    /\ pc = "selenium"
    /\ IF InTry(stage1, fallbacks)
       THEN /\ fallbacks' = 2
            /\ pc' = "selenium"
            /\ UNCHANGED <<result, visits>>
       ELSE /\ pc' = "crashed"
            /\ result' = "raised"
            /\ visits' = visits + 1
            /\ UNCHANGED fallbacks
    /\ UNCHANGED <<mark, items, store, use_s3, email_config, writable,
                   idx, changes, price, clock, head_url, head_response, get_url,
                   stage1, visited, items0, saved, notified, sent, last_call,
                   obs, obs0, price_text, extracted, soup, selected, driver>>

\* How get_price_with_selenium leaves, once it holds a driver: with the number
\* of a rendered element ("found"), with None when no selector resolved within
\* the wait or the text held no number ("unresolved"), with None after an
\* exception ("exception").
SeleniumExits ==
    [path : {"found"}, price : SeleniumResults \ {None}]
    \cup [path : {"unresolved", "exception"}, price : {None}]

\* A fallback that quits the driver at the end of its try block only.
Releases_OnReturn(path) == path # "exception"

\* Whether the driver is released on an exit path: on every one.
Releases(path) == path \in {"found", "unresolved", "exception"}

\* get_price_with_selenium, lines 300-304: driver = get_chrome_driver(), which
\* returns a driver or raises; when it raises there is no driver, and the
\* method returns None.
open_driver(ok) ==
    /\ pc = "selenium"
    /\ IF ok
       THEN driver' = "open" /\ pc' = "driver" /\ UNCHANGED price
       ELSE driver' = "none" /\ pc' = "reconcile" /\ price' = None
    /\ UNCHANGED <<mark, visits, items, store, use_s3, email_config, writable, idx, changes, clock,
                   result, head_url, head_response, get_url, stage1, fallbacks,
                   visited, items0, saved, notified, sent, last_call, obs, obs0,
                   price_text, extracted, soup, selected>>

\* get_price_with_selenium, from the driver on: it leaves by the path of exit
\* and returns the price of exit to get_price, which returns it.
get_price_with_selenium(exit) ==
    /\ pc = "driver"
    /\ driver' = IF Releases(exit.path) THEN "released" ELSE "open"
    /\ price' = exit.price
    /\ pc' = "reconcile"
    /\ UNCHANGED <<mark, visits, items, store, use_s3, email_config, writable, idx, changes, clock,
                   result, head_url, head_response, get_url, stage1, fallbacks,
                   visited, items0, saved, notified, sent, last_call, obs, obs0,
                   price_text, extracted, soup, selected>>

\* check_prices, lines 192-217: the observed price against the item's record.
reconcile ==
    LET it == items[idx]
    IN  /\ pc = "reconcile"
        /\ items' = [items EXCEPT ![idx] = Reconciled(it, price, clock)]
        /\ changes' = changes \o ReconcileEvents(it, price, clock)
        /\ visited' = visited + 1
        /\ visits' = visits + 1
        /\ get_url' = None
        /\ stage1' = "none"
        /\ fallbacks' = 0
        /\ obs' = Append(obs, Observation(it, price, clock))
        /\ driver' = IF driver = "released" THEN "none" ELSE driver
        /\ pc' = "next"
        /\ UNCHANGED <<mark, store, use_s3, email_config, writable, idx, price, clock, result,
                       head_url, head_response, items0, saved, notified, sent,
                       last_call, obs0, price_text, extracted, soup, selected>>

\* check_prices, line 166: the loop goes on to the next item, or ends.
next_item ==
    /\ pc = "next"
    /\ IF idx < Len(items)
       THEN idx' = idx + 1 /\ pc' = "probe"
       ELSE idx' = idx /\ pc' = "save"
    /\ price' = None
    /\ UNCHANGED <<mark, visits, items, store, use_s3, email_config, writable, changes, clock, result,
                   head_url, head_response, get_url, stage1, fallbacks,
                   visited, items0, saved, notified, sent, last_call, obs, obs0,
                   price_text, extracted, soup, selected, driver>>

\* check_prices, lines 219-229: save_data; then the cycle notifies, or returns
\* its changes.
save_data ==
    LET calls == SaveCalls(changes)
        raises == calls > 0 /\ SaveRaises
    IN  /\ pc = "save"
        /\ saved' = IF calls > 0 THEN Append(saved, items) ELSE saved
        /\ \E fail \in WriteFailures :
               store' = IF calls > 0 THEN SavedStore(items, fail) ELSE store
        /\ pc' = IF raises THEN "crashed"
                 ELSE IF Notifies(changes) THEN "notify" ELSE "done"
        /\ result' = IF raises THEN "raised"
                     ELSE IF Notifies(changes) THEN "none" ELSE "changes"
        /\ UNCHANGED <<mark, visits, items, use_s3, email_config, writable, idx, changes, price, clock,
                       head_url, head_response, get_url, stage1, fallbacks,
                       visited, items0, notified, sent, last_call, obs, obs0,
                       price_text, extracted, soup, selected, driver>>

\* How a call of send_notification goes: the message is sent, or a step fails:
\* building the message (a key missing in email_config), connecting to the
\* server, logging in, sending.
NotifyOutcomes == {"sent", "message", "connect", "login", "send"}

\* A send_notification whose handler covers the SMTP session only.
NotifyCaught_SessionOnly(out) == out \in {"connect", "login", "send"}

\* Whether the handler at line 410 catches the failure of a step: the try
\* block spans lines 346-408 and the handler catches Exception.
NotifyCaught(out) == out \in {"message", "connect", "login", "send"}

\* send_notification(changes), lines 340-412: the message is sent (True) or an
\* exception is caught (False); check_prices then returns its changes.
send_notification(out) ==
    LET raises == out # "sent" /\ ~NotifyCaught(out)
    IN
    /\ pc = "notify"
    /\ notified' = Append(notified, changes)
    /\ sent' = IF raises THEN "none" ELSE IF out = "sent" THEN "True" ELSE "False"
    /\ pc' = IF raises THEN "crashed" ELSE "done"
    /\ result' = IF raises THEN "raised" ELSE "changes"
    /\ UNCHANGED <<mark, visits, items, store, use_s3, email_config, writable, idx, changes, price,
                   clock, head_url, head_response, get_url, stage1, fallbacks,
                   visited, items0, saved, last_call, obs, obs0, price_text,
                   extracted, soup, selected, driver>>

Next ==
    \/ \E read \in ReadOutcomes : load_data(read)
    \/ \E call \in AddCalls : add_item(call[1], call[2])
    \/ \E url \in RemoveCalls : remove_item(url)
    \/ check_prices
    \/ \E resp \in HeadOutcomes : redirect_probe(resp)
    \/ \E out \in GetOutcomes : get_price(out)
    \/ fallback_raises
    \/ \E ok \in BOOLEAN : open_driver(ok)
    \/ \E exit \in SeleniumExits : get_price_with_selenium(exit)
    \/ reconcile
    \/ next_item
    \/ save_data
    \/ \E out \in NotifyOutcomes : send_notification(out)

Spec == Init /\ [][Next]_vars

\* ------------------------------- a watcher constructed on an existing store

\* What an earlier run left of an item in the store: the item as add_item made
\* it, never resolved since, or the item with a price a check cycle observed.
StoredItems ==
    { NewItem(U1, ItemFrom(<<"a">>)),
      [NewItem(U1, ItemFrom(<<"a">>)) EXCEPT !.current_price = <<1, 0>>,
                                             !.last_checked = <<0>>] }

\* The watcher after __init__ on a local store an earlier run wrote: load_data
\* has read the file into self.items (lines 80-83).
InitStored ==
    /\ store \in {Written(<<it>>) : it \in StoredItems}
    /\ items = store.items
    /\ use_s3 = FALSE
    /\ email_config \in BOOLEAN
    /\ writable = TRUE
    /\ pc = "idle"
    /\ idx = 0
    /\ changes = <<>>
    /\ price = None
    /\ clock = 0
    /\ result = "none"
    /\ head_url = None
    /\ head_response = NoResponse
    /\ get_url = None
    /\ stage1 = "none"
    /\ fallbacks = 0
    /\ visited = 0
    /\ visits = 0
    /\ mark = 0
    /\ items0 = <<>>
    /\ saved = <<>>
    /\ notified = <<>>
    /\ sent = "none"
    /\ last_call = <<"__init__">>
    /\ obs = <<>>
    /\ obs0 = <<>>
    /\ driver = "none"
    /\ price_text = NoText
    /\ extracted = NoText
    /\ soup = NoText
    /\ selected = NoSelection

SpecStored == InitStored /\ [][Next]_vars

\* ------------------------------------------- extract_price on its own

\* Numbers as a page writes them, each with the float it denotes.
Numbers ==
    { [text |-> <<"7">>, value |-> <<7, 0>>],
      [text |-> <<"0">>, value |-> <<0, 0>>],
      [text |-> <<"1", "2">>, value |-> <<12, 0>>],
      [text |-> <<"1", ",", "2", "3", "4">>, value |-> <<1234, 0>>],
      [text |-> <<"1", ",", "0", "0", "0">>, value |-> <<1000, 0>>],
      [text |-> <<"0", ".", "5">>, value |-> <<5, 1>>],
      [text |-> <<"0", ".", "0", "5">>, value |-> <<5, 2>>],
      [text |-> <<"3", ".", "0">>, value |-> <<3, 0>>],
      [text |-> <<"1", "2", ".", "5", "0">>, value |-> <<125, 1>>],
      [text |-> <<"1", "0", ".", "0", "1">>, value |-> <<1001, 2>>],
      [text |-> <<"1", ",", "2", "3", "4", ".", "5", "6">>,
       value |-> <<123456, 2>>] }

\* Currency glyphs, or none.
Glyphs == { <<>>, <<"$">>, <<"€">>, <<"$", " ">> }
\* What precedes the price and what follows it; no digit in either.
Prefixes == { <<>>, <<" ">>, <<"N", "o", "w", ":", " ">>, <<"R", "s", ".">> }
Suffixes == { <<>>, <<" ">>, <<" ", "e", "a", ".">>, <<".">>, <<",">> }

\* The texts with exactly one number, each with that number.
PriceTexts ==
    { [text |-> pre \o g \o n.text \o suf, value |-> n.value] :
        pre \in Prefixes, g \in Glyphs, n \in Numbers, suf \in Suffixes }

\* Characters that are no digits.
NonDigits == {"$", ",", ".", " ", "a", "-"}
\* The greatest length of a text with no digit.
MaxTextLen == 3

\* The texts with no digit, of a length up to MaxTextLen.
NoDigitTexts ==
    UNION { [1..n -> NonDigits] : n \in 0..MaxTextLen }

\* An object is constructed, and a text is chosen for a call of extract_price.
InitExtract ==
    /\ Fresh
    /\ use_s3 = FALSE
    /\ email_config = FALSE
    /\ writable = TRUE
    /\ price_text \in {t.text : t \in PriceTexts} \cup NoDigitTexts
    /\ extracted = NoText
    /\ soup = NoText
    /\ selected = NoSelection

\* extract_price(price_text) is called and returns.
call_extract_price ==
    /\ extracted = NoText
    /\ extracted' = extract_price(price_text)
    /\ UNCHANGED <<items, store, use_s3, email_config, writable, pc, idx,
                   changes, price, clock, result, head_url, head_response,
                   get_url, stage1, fallbacks, visited, visits, mark, items0,
                   saved, notified, sent, last_call, obs, obs0, price_text,
                   soup, selected, driver>>

NextExtract == call_extract_price

SpecExtract == InitExtract /\ [][NextExtract]_vars

\* -------------------------------- the selector loop of get_price on its own

\* The pages on which any of the selectors may select an element.
FullPages == [1..Len(selectors) -> {None} \cup {<<t>> : t \in Texts}]

\* get_price has fetched a page with status 200 and is about to parse it.
InitSelect ==
    /\ Fresh
    /\ use_s3 = FALSE
    /\ email_config = FALSE
    /\ writable = TRUE
    /\ price_text = NoText
    /\ extracted = NoText
    /\ soup \in FullPages
    /\ selected = NoSelection

\* get_price, lines 245-271, on the page soup: the selector loop ends.
select_price ==
    /\ selected = NoSelection
    /\ selected' = static_stage([raised |-> FALSE, status_code |-> 200,
                                 page |-> soup])
    /\ UNCHANGED <<items, store, use_s3, email_config, writable, pc, idx,
                   changes, price, clock, result, head_url, head_response,
                   get_url, stage1, fallbacks, visited, visits, mark, items0,
                   saved, notified, sent, last_call, obs, obs0, price_text,
                   extracted, soup, driver>>

NextSelect == select_price

SpecSelect == InitSelect /\ [][NextSelect]_vars

\* --------------------------------------------------------------- claims

\* The events of one kind the cycle's change list holds for the item id.
KindEvents(kind, id) ==
    SelectSeq(changes, LAMBDA e : e.change_type = kind /\ e.url = id)

\* The events appended to the change list since the current item's probe ended,
\* that is, by the reconciliation of the current item.
Emitted == SubSeq(changes, mark + 1, Len(changes))

\* The loop of the cycle has ended and the cycle has not failed.
LoopOver == pc \in {"save", "notify", "done"}

\* C1: when get_price returns p for an item whose current_price is c, set, and
\* p # c, then previous_price = c and current_price = p, and the change list
\* holds exactly one price event for the item, from c to p; and so it is for
\* every item when the loop is over.
C1_PriceChange ==
    /\ pc = "next" =>
         LET it == items[idx]
             c == items0[idx].current_price
             evs == KindEvents("price", it.id)
         IN  (c # None /\ price # None /\ price # c) =>
                 /\ it.previous_price = c
                 /\ it.current_price = price
                 /\ Len(evs) = 1
                 /\ evs[1].old_value = c
                 /\ evs[1].new_value = price
    /\ LoopOver =>
         \A i \in 1..Len(items) :
             LET it == items[i]
                 c == items0[i].current_price
                 evs == KindEvents("price", it.id)
             IN  (c # None /\ it.current_price # c) =>
                     /\ it.previous_price = c
                     /\ Len(evs) = 1
                     /\ evs[1].old_value = c
                     /\ evs[1].new_value = it.current_price

\* A cycle has ended in which an item's known price changed.
C1_Witness ==
    /\ pc = "done"
    /\ \E i \in 1..Len(items) :
           /\ items0[i].current_price # None
           /\ items[i].current_price # items0[i].current_price
           /\ items[i].previous_price = items0[i].current_price
           /\ Len(KindEvents("price", items[i].id)) = 1

\* C2: when get_price returns p for an item whose current_price is unset, then
\* current_price = p, last_checked is stamped with the cycle's time,
\* previous_price is still unset and the reconciliation appends no event (the
\* list holds no price event for the item); a cycle whose change list is empty
\* does not call the notifier.
C2_InitialObservation ==
    /\ pc = "next" =>
         LET it == items[idx]
         IN  (items0[idx].current_price = None /\ price # None) =>
                 /\ it.current_price = price
                 /\ it.last_checked = <<clock>>
                 /\ it.previous_price = None
                 /\ Emitted = <<>>
                 /\ KindEvents("price", it.id) = <<>>
    /\ (pc \in {"notify", "done"} /\ changes = <<>>) =>
         (pc = "done" /\ notified = <<>>)

\* A cycle with a notifier configured has ended on a first observation and no
\* event, the notifier not called.
C2_Witness ==
    /\ pc = "done"
    /\ email_config
    /\ changes = <<>>
    /\ notified = <<>>
    /\ \E i \in 1..Len(items) :
           /\ items0[i].current_price = None
           /\ items[i].current_price # None
           /\ items[i].last_checked = <<clock>>

\* C3: when get_price returns None for an item, its current_price,
\* previous_price and last_checked are as they were when the cycle began and
\* the reconciliation appends no event (the list holds no price event for it).
C3_Unresolved ==
    pc = "next" =>
        LET it == items[idx]
            start == items0[idx]
        IN  price = None =>
                /\ it.current_price = start.current_price
                /\ it.previous_price = start.previous_price
                /\ it.last_checked = start.last_checked
                /\ Emitted = <<>>
                /\ KindEvents("price", it.id) = <<>>

\* The price of an item with a known price was not resolved in this cycle.
C3_Witness ==
    /\ pc = "next"
    /\ price = None
    /\ items[idx].current_price # None
    /\ items[idx].last_checked # <<clock>>

\* C4: when get_price returns the item's current_price, the reconciliation
\* changes last_checked and nothing else of the item, and appends no event;
\* current_price and previous_price are as they were when the cycle began.
C4_Unchanged ==
    /\ pc = "reconcile" =>
         LET it == items[idx]
         IN  (it.current_price # None /\ price = it.current_price) =>
                 /\ Reconciled(it, price, clock)
                        = [it EXCEPT !.last_checked = <<clock>>]
                 /\ ReconcileEvents(it, price, clock) = <<>>
    /\ pc = "next" =>
         LET it == items[idx]
             start == items0[idx]
         IN  (start.current_price # None /\ price = start.current_price) =>
                 /\ it.current_price = start.current_price
                 /\ it.previous_price = start.previous_price
                 /\ it.last_checked = <<clock>>
                 /\ it.id = start.id
                 /\ it.name = start.name
                 /\ Emitted = <<>>
                 /\ KindEvents("price", it.id) = <<>>

\* An item's known price was observed again, in a later cycle.
C4_Witness ==
    /\ pc = "next"
    /\ items0[idx].current_price # None
    /\ price = items0[idx].current_price
    /\ items0[idx].last_checked # <<clock>>
    /\ items[idx].last_checked = <<clock>>

\* C5: when the probe of an item is answered with a status in {301, 302, 303,
\* 307, 308} and a Location target, the change list holds exactly one url event
\* for the item, to that target, and the item's url is the target; when it is
\* answered with 200, the list holds no url event for the item and the item's
\* url and previous_url are as they were.  When the loop is over, every item
\* has at most one url event; with none its url and previous_url are as they
\* were, with one its url is the event's target.
C5_Redirect ==
    /\ pc = "get_price" =>
         LET it == items[idx]
             start == items0[idx]
             r == head_response
             evs == KindEvents("url", it.id)
         IN  /\ ( /\ ~r.raised
                  /\ r.status_code \in {301, 302, 303, 307, 308}
                  /\ r.location # None ) =>
                    /\ Len(evs) = 1
                    /\ evs[1].new_value = r.location
                    /\ it.url = r.location
             /\ (~r.raised /\ r.status_code = 200) =>
                    /\ evs = <<>>
                    /\ it.url = start.url
                    /\ it.previous_url = start.previous_url
    /\ LoopOver =>
         \A i \in 1..Len(items) :
             LET it == items[i]
                 evs == KindEvents("url", it.id)
             IN  /\ Len(evs) <= 1
                 /\ evs = <<>> => /\ it.url = items0[i].url
                                  /\ it.previous_url = items0[i].previous_url
                 /\ evs # <<>> => it.url = evs[1].new_value

\* A probe was answered 307 with a target, and the item's url is the target.
C5_Witness ==
    /\ pc = "get_price"
    /\ head_response.status_code = 307
    /\ head_response.location = T1
    /\ items[idx].url = T1
    /\ Len(KindEvents("url", items[idx].id)) = 1

\* C6: get_price is called, after the probe, with the item's url as the probe
\* left it: with the redirect target when the probe found a redirect.
C6_ExtractionUrl ==
    pc \in {"selenium", "reconcile"} => get_url = items[idx].url

\* C7, as claimed: the fallback is called if and only if the static stage
\* yields no price, be it by a status other than 200, by an exception or by
\* the selectors being exhausted.
C7_FallbackIff ==
    pc = "reconcile" =>
        (fallbacks > 0 <=> stage1 \in {"status", "error", "exhausted"})

\* C7, amended: the fallback is called if and only if the static stage raised
\* or exhausted its selectors without a number; on a status other than 200
\* get_price returns None without calling it, and when a selector yields a
\* number get_price returns that number without calling it.
C7_Fallback ==
    /\ pc = "selenium" => fallbacks >= 1
    /\ pc \in {"selenium", "reconcile"} =>
         /\ fallbacks >= 1 <=> stage1 \in {"error", "exhausted"}
         /\ stage1 = "status" => (fallbacks = 0 /\ price = None)
         /\ stage1 = "found" => (fallbacks = 0 /\ price # None)

\* get_price has returned None on a status other than 200, the fallback not
\* called.
C7_Witness ==
    /\ pc = "reconcile"
    /\ stage1 = "status"
    /\ fallbacks = 0
    /\ price = None

\* C8: in a cycle the notifier is called at most once, only with a change list
\* that is not empty, with the whole list, and only after save_data was called
\* on the items as they are.
C8_NotifyAfterSave ==
    /\ Len(notified) <= 1
    /\ pc = "notify" =>
         /\ changes # <<>>
         /\ notified = <<>>
         /\ saved # <<>>
         /\ saved[Len(saved)] = items
    /\ notified # <<>> =>
         /\ notified[1] = changes
         /\ changes # <<>>
         /\ saved # <<>>
         /\ saved[Len(saved)] = items

\* A cycle has ended, the notifier called with its changes.
C8_Witness ==
    /\ pc = "done"
    /\ Len(notified) = 1
    /\ Len(notified[1]) >= 1
    /\ saved = <<items>>

\* C9: a cycle that has completed has called save_data exactly once, and so
\* has a cycle about to notify.
C9_OneSave ==
    pc \in {"notify", "done"} => Len(saved) = 1

\* A cycle over some items has completed with no change and one save.
C9_Witness ==
    /\ pc = "done"
    /\ items # <<>>
    /\ changes = <<>>
    /\ Len(saved) = 1

\* C10: the loop goes through every item whatever fails for an item: when the
\* loop is over every item has been gone through, and a cycle fails only in
\* its save_data, after the loop.
C10_NoAbort ==
    /\ LoopOver => visited = Len(items)
    /\ pc = "crashed" =>
         /\ visited = Len(items)
         /\ Len(saved) = 1
         /\ SaveRaises

\* A cycle over two items has completed: the first item's price was not
\* resolved, the second item's was.
C10_Witness ==
    /\ pc = "done"
    /\ Len(items) = 2
    /\ visited = 2
    /\ items[1].last_checked # <<clock>>
    /\ items[2].last_checked = <<clock>>

\* The current item was gone through by the cycle just before this one, and
\* get_price returns for it, now, the price it returned then.
SamePriceAgain ==
    /\ pc = "next"
    /\ idx <= Len(obs0)
    /\ obs0[idx].id = items[idx].id
    /\ obs0[idx].price # None
    /\ price = obs0[idx].price

\* C11, as claimed: when the same price is observed for an item in two
\* consecutive cycles, the first of them the item's initial observation, the
\* first cycle appended an event for it and the second appends none, and the
\* item's price fields are after the second cycle as they were after the first.
C11_EventOnFirst ==
    (SamePriceAgain /\ obs0[idx].before = None) =>
        /\ obs0[idx].events = 1
        /\ Emitted = <<>>
        /\ items[idx].current_price = items0[idx].current_price
        /\ items[idx].previous_price = items0[idx].previous_price

\* C11, amended: when the same price is observed for an item in two consecutive
\* cycles, the second cycle appends no event for it and the item's price fields
\* are after the second cycle as they were after the first; the first cycle
\* appended no event either when it was the item's initial observation or when
\* it observed the price the item had, and one event when it changed a known
\* price.
C11_Idempotent ==
    SamePriceAgain =>
        /\ Emitted = <<>>
        /\ KindEvents("price", items[idx].id) = <<>>
        /\ items[idx].current_price = items0[idx].current_price
        /\ items[idx].previous_price = items0[idx].previous_price
        /\ items[idx].current_price = price
        /\ obs0[idx].before = None => obs0[idx].events = 0
        /\ obs0[idx].before = price => obs0[idx].events = 0
        /\ (obs0[idx].before # None /\ obs0[idx].before # price) =>
               /\ obs0[idx].events = 1
               /\ items[idx].previous_price = obs0[idx].before

\* The price that changed a known price in one cycle was observed again in
\* the next.
C11_Witness ==
    /\ SamePriceAgain
    /\ obs0[idx].before # None
    /\ obs0[idx].before # price
    /\ obs0[idx].events = 1
    /\ Emitted = <<>>
    /\ items[idx].previous_price = obs0[idx].before
    /\ items[idx].last_checked = <<clock>>

\* The probe of the current item has been answered with a redirect.
Redirected ==
    /\ pc = "get_price"
    /\ ~head_response.raised
    /\ head_response.status_code \in {301, 302, 303, 307, 308}
    /\ head_response.location # None

\* C12: the probe of an item is issued against the item's url field as it is
\* when the probe is made: against the redirect target once an earlier cycle's
\* redirect has overwritten url.
C12_ProbeCurrentUrl ==
    pc = "get_price" => head_url = items0[idx].url

\* C13: when the probe of an item finds a redirect, previous_url is the value
\* url held just before the probe overwrote it, also when url had been
\* overwritten before; when it finds none, previous_url is as it was.
C13_PreviousUrl ==
    pc = "get_price" =>
        IF Redirected
        THEN items[idx].previous_url = items0[idx].url
        ELSE items[idx].previous_url = items0[idx].previous_url

\* C14: a call of send_notification never raises, and one that fails returns
\* False; the cycle then ends returning its change list, the items and the
\* store being what the cycle's save_data left.
C14_NotifierFailure ==
    /\ notified # <<>> => (pc = "done" /\ result = "changes")
    /\ sent = "False" =>
         /\ notified = <<changes>>
         /\ Len(saved) = 1
         /\ items = saved[1]
         /\ store = IF writable THEN Written(saved[1])
                    ELSE NoStore

\* A cycle has saved a change to the store and ended, its notification failed.
C14_Witness ==
    /\ pc = "done"
    /\ sent = "False"
    /\ result = "changes"
    /\ changes # <<>>
    /\ store = Written(items)

\* The keys of a tracked map, in its order.
KeysOf(its) == [i \in 1..Len(its) |-> its[i].id]

\* C15: the keys of the tracked map are distinct, and throughout a check cycle
\* and after it they are the keys the map had when the cycle began, in the same
\* order, also when a redirect has overwritten an item's url; so are the keys
\* of what the cycle saves.
C15_StableIds ==
    /\ Cardinality(Ids(items)) = Len(items)
    /\ pc # "idle" =>
         /\ KeysOf(items) = KeysOf(items0)
         /\ \A k \in 1..Len(saved) : KeysOf(saved[k]) = KeysOf(items0)
    /\ store.exists => Cardinality(Ids(store.items)) = Len(store.items)

\* A cycle has ended in which a redirect overwrote the url of an item, the
\* item still under its key.
C15_Witness ==
    /\ pc = "done"
    /\ \E i \in 1..Len(items) :
           /\ items[i].url # items[i].id
           /\ items0[i].url = items0[i].id
           /\ items[i].id = items0[i].id
    /\ store.exists
    /\ KeysOf(store.items) = KeysOf(items0)

\* C16: for a text holding exactly one number n, in the integer or the
\* decimal-point form, with or without comma separators and a currency glyph
\* before it, extract_price returns n.
C16_OneNumber ==
    \A t \in PriceTexts :
        (price_text = t.text /\ extracted # NoText) => extracted = t.value

\* extract_price has returned 1234.56 for a text that writes it with a glyph,
\* a comma and a fraction.
C16_Witness ==
    /\ price_text = <<"$", "1", ",", "2", "3", "4", ".", "5", "6">>
    /\ extracted = <<123456, 2>>

\* C17: for a text with no digit extract_price returns None.
C17_NoDigit ==
    (price_text \in NoDigitTexts /\ extracted # NoText) => extracted = None

\* extract_price has returned None for a text of a glyph and a point.
C17_Witness ==
    /\ price_text = <<"$", ".">>
    /\ extracted = None

\* The urls of the calls of add_item that lack a scheme, a network location,
\* or both.
Lacking == {NoScheme, NoNetloc, Bare}

\* C18: a call of add_item with a url that lacks a scheme or a network
\* location returns False, leaves the tracked map as it was and does not write
\* the store.
C18_Rejected ==
    [][ \A call \in AddCalls :
          ( /\ call[1] \in Lacking
            /\ last_call' = <<"add_item", call[1], call[2]>>
            /\ add_item(call[1], call[2]) ) =>
              /\ result' = "False"
              /\ items' = items
              /\ store' = store ]_vars

\* add_item has returned False for a url with a scheme and no network location,
\* the tracked map and the store holding another item.
C18_Witness ==
    /\ last_call = <<"add_item", NoNetloc, <<"n">>>>
    /\ result = "False"
    /\ Len(items) = 1
    /\ store = Written(items)

\* C19: load_data on a store that is absent, corrupt or unreadable returns
\* without raising and leaves the tracked map empty, with either backend.
C19_LoadTolerant ==
    ( /\ last_call[1] = "load_data"
      /\ last_call[2] \in {"absent", "corrupt", "unreadable"} ) =>
        /\ result # "raised"
        /\ items = <<>>

\* C20: when the write of the store fails in the save_data of a check cycle,
\* save_data returns without raising and the cycle goes on to return its
\* change list, with either backend.
C20_SaveTolerant ==
    (Len(saved) = 1 /\ ~writable) =>
        /\ pc \in {"notify", "done"}
        /\ result # "raised"

\* previous_price is set only with current_price, and differs from it.
PricePair(it) ==
    it.previous_price # None =>
        (it.current_price # None /\ it.previous_price # it.current_price)

\* C21: for every item of the tracked map and of the store, previous_price is
\* set only if current_price is, and differs from it; and when an item has been
\* reconciled, previous_price is the value current_price held before the
\* reconciliation if that changed current_price, and is as it was if not.
C21_PreviousPrice ==
    /\ \A i \in 1..Len(items) : PricePair(items[i])
    /\ \A i \in 1..Len(store.items) : PricePair(store.items[i])
    /\ pc = "next" =>
         IF items[idx].current_price # items0[idx].current_price
         THEN items[idx].previous_price = items0[idx].current_price
         ELSE items[idx].previous_price = items0[idx].previous_price

\* A known price of an item has changed in a cycle: previous_price is the old
\* price and differs from the new one.
C21_Witness ==
    /\ pc = "next"
    /\ items0[idx].current_price # None
    /\ items[idx].current_price # items0[idx].current_price
    /\ items[idx].previous_price = items0[idx].current_price
    /\ items[idx].previous_price # items[idx].current_price

\* The number the text of an element holds, for the texts of the pages.
NumberIn(t) ==
    CASE t = <<"$", "1">> -> <<1, 0>>
      [] t = <<" ", "1", ".", "5", "0">> -> <<15, 1>>
      [] t = <<"n", "/", "a">> -> None

\* The selectors that select an element of the page whose text holds a number.
Yielding(page) ==
    {i \in 1..Len(selectors) : page[i] # None /\ NumberIn(page[i][1]) # None}

\* C22: on a page fetched with status 200 the selector loop ends with the
\* number in the text of the element of the first selector, in the order of
\* the list, that selects an element whose text holds a number, whatever the
\* selectors before it select; and with no number when there is no such
\* selector.
C22_FirstYielding ==
    selected # NoSelection =>
        IF Yielding(soup) = {}
        THEN selected = [kind |-> "exhausted", price |-> None]
        ELSE LET first == CHOOSE i \in Yielding(soup) :
                              \A j \in Yielding(soup) : i <= j
             IN  selected = [kind |-> "found",
                             price |-> NumberIn(soup[first][1])]

\* The loop has passed a selector that selects nothing and one whose element
\* holds no number, and has ended with the number of the third, not with the
\* fourth's.
C22_Witness ==
    /\ soup # NoText
    /\ soup[1] = None
    /\ soup[2] = << <<"n", "/", "a">> >>
    /\ soup[3] = << <<" ", "1", ".", "5", "0">> >>
    /\ soup[4] = << <<"$", "1">> >>
    /\ selected = [kind |-> "found", price |-> <<15, 1>>]

\* C23: a driver is open only while get_price_with_selenium runs: when the
\* method has returned, by whatever path, the driver it acquired has been
\* released, and none is open when the next item is gone through or the cycle
\* ends.
C23_DriverReleased ==
    /\ driver = "open" => pc = "driver"
    /\ driver = "released" => pc = "reconcile"
    /\ (pc = "reconcile" /\ driver = "none") =>
         (fallbacks = 0 \/ price = None)

\* get_price_with_selenium has acquired a driver, found no price and returned,
\* the driver released.
C23_Witness ==
    /\ pc = "reconcile"
    /\ fallbacks = 1
    /\ driver = "released"
    /\ price = None

\* The items of a tracked map, as a set.
ItemSet(its) == {its[i] : i \in 1..Len(its)}

\* C24: a call of remove_item with the id of an item returns True, deletes that
\* item and no other, and writes the store; a call with a value that is no id,
\* be it the url a redirect gave an item, returns False and changes neither the
\* tracked map nor the store.
C24_RemoveById ==
    [][ \A url \in RemoveCalls :
          (last_call' = <<"remove_item", url>> /\ remove_item(url)) =>
              IF \E i \in 1..Len(items) : items[i].id = url
              THEN /\ result' = "True"
                   /\ ItemSet(items') = {it \in ItemSet(items) : it.id # url}
                   /\ Len(items') = Len(items) - 1
                   /\ writable => store' = Written(items')
              ELSE /\ result' = "False"
                   /\ items' = items
                   /\ store' = store ]_vars

\* The well-formed urls of the calls of add_item.
WellFormed == {U1, U2}

\* C25: a call of add_item with a well-formed url that is the id of an item
\* returns False and leaves the tracked map, that item's record with it, and
\* the store as they were; with a well-formed url that is no id it appends one
\* item whose id and url are that url and whose current_price, previous_price
\* and last_checked are unset, and leaves the other items as they were.
C25_AddItem ==
    [][ \A call \in AddCalls :
          ( /\ call[1] \in WellFormed
            /\ last_call' = <<"add_item", call[1], call[2]>>
            /\ add_item(call[1], call[2]) ) =>
              IF \E i \in 1..Len(items) : items[i].id = call[1]
              THEN /\ result' = "False"
                   /\ items' = items
                   /\ store' = store
              ELSE /\ Len(items') = Len(items) + 1
                   /\ \A i \in 1..Len(items) : items'[i] = items[i]
                   /\ items'[Len(items')].id = call[1]
                   /\ items'[Len(items')].url = call[1]
                   /\ items'[Len(items')].current_price = None
                   /\ items'[Len(items')].previous_price = None
                   /\ items'[Len(items')].last_checked = None ]_vars

\* add_item has returned False for the id of an item whose url a redirect has
\* overwritten and whose price is known; the item is as the cycle left it.
C25_Witness ==
    /\ last_call = <<"add_item", U1, None>>
    /\ result = "False"
    /\ Len(items) = 1
    /\ items[1].id = U1
    /\ items[1].url = T1
    /\ items[1].current_price # None

====
